---- MODULE Spec2Model ----
(***************************************************************************)
(* Model of NewsHarvester (src/main.py): the RSS poller that cuts the feed *)
(* to its first item, classifies the item's link against the two last     *)
(* links and stores fresh items in the table "news".                       *)
(*                                                                         *)
(* A text is a sequence of lexical units (strings); the news table is a    *)
(* sequence of rows in insertion order, each row a tuple laid out by the   *)
(* table's column names, as sqlite3 returns it.                            *)
(***************************************************************************)
EXTENDS Integers, Sequences, FiniteSets, TLC

VARIABLES
    pc,                  \* position of the process
    two_last_news_link,  \* self.two_last_news_link
    news_columns,        \* column names of the table "news" in rss_news.db
    news,                \* committed rows of the table "news", oldest first
    rss_text,            \* response.text, the argument rss_text of rss_cutter
    substr_to_find,      \* the argument substr_to_find of rss_cutter
    cut_rss_text,        \* outcome of the last rss_cutter call
    rss_dict,            \* outcome of xmltodict.parse in run
    news_link,           \* news_link in run
    fresh,               \* value of self.item_is_fresh(news_link) in run
    console,             \* the last line printed
    last,                \* history: the last item_is_fresh call
    fresh_log,           \* history: the links classified fresh, newest first (at most 2)
    calls,               \* history: the direct item_is_fresh calls while they follow Script
    on_script,           \* history: whether calls is still being recorded
    news0                \* history: the rows at the start of the current poll cycle

vars == <<pc, two_last_news_link, news_columns, news, rss_text, substr_to_find,
          cut_rss_text, rss_dict, news_link, fresh, console, last, fresh_log,
          calls, on_script, news0>>

----------------------------------------------------------------------------
(* Bounds *)

MaxRows == 4        \* rows the table may hold before polling stops
MaxTextLen == 4     \* length of the texts given to rss_cutter on its own
MaxSubLen == 2      \* length of the substrings given to rss_cutter on its own

Links == {"A", "B", "C"}          \* permalinks the feed may carry
Chars == {"a", "b"}               \* alphabet of the texts given to rss_cutter on its own

----------------------------------------------------------------------------
(* Lexical units of the feed and the strings of the program *)

RssOpen == "<rss><channel>"
ItemOpen == "<item>"
ItemEnd == "</item>"
Rest == "<author/><category/><description/><enclosure url/><pubDate/><title/>"
ClosingMarkup == <<"</channel></rss>">>
ErrHead == "ERROR! Substring \""
ErrTail == "\" not found in rss_text in rss_cutter"
MsgNoRows == "could not read the last two rows from the DB"
MsgNoLinkColumn == "could not find the column 'link' in the DB"
MsgFresh == "fresh news received, DB updated"
MsgNoNews == "no fresh news"

EmptyWindow == <<"", "">>
SchemaColumns == <<"id", "author", "category", "description", "img_link", "link",
                   "pubDate", "title">>
ForeignColumns == <<"id", "title">>
InsertColumns == {"author", "category", "description", "img_link", "link",
                  "pubDate", "title"}

Range(s) == {s[i] : i \in 1..Len(s)}

----------------------------------------------------------------------------
(* rss_cutter *)

\* str.index: the smallest position (1-based) where sub occurs in text, 0 for ValueError
OccursAt(text, sub, i) ==
    /\ i >= 1
    /\ i + Len(sub) - 1 <= Len(text)
    /\ \A k \in 1..Len(sub) : text[i + k - 1] = sub[k]

RECURSIVE IndexFrom(_, _, _)
IndexFrom(text, sub, i) ==
    IF i + Len(sub) - 1 > Len(text) THEN 0
    ELSE IF OccursAt(text, sub, i) THEN i
    ELSE IndexFrom(text, sub, i + 1)

\* faulty variant: the last occurrence (str.rindex)
IndexLast(text, sub) ==
    LET S == {i \in 1..(Len(text) + 1) : OccursAt(text, sub, i)}
    IN  IF S = {} THEN 0 ELSE CHOOSE i \in S : \A j \in S : j <= i

StrIndex(text, sub) == IndexFrom(text, sub, 1)

\* the value a call returns, with its Python type
Returned(type, value) == [kind |-> "return", type |-> type, value |-> value]
NoOutcome == [kind |-> "none", type |-> "none", value |-> <<>>]
Contains(text, sub) == \E i \in 1..(Len(text) + 1) : OccursAt(text, sub, i)

rss_cutter(text, sub) ==
    LET substr_index == StrIndex(text, sub)
    IN  IF substr_index = 0
        THEN Returned("str", <<ErrHead>> \o sub \o <<ErrTail>>)
        ELSE Returned("str", SubSeq(text, 1, substr_index - 1) \o sub \o ClosingMarkup)

----------------------------------------------------------------------------
(* item_is_fresh *)

ListInsertFront(list, x) == <<x>> \o list
ListPop(list) == SubSeq(list, 1, Len(list) - 1)

\* faulty variants: no pop; insertion at the end; comparison with the first link only;
\* a duplicate moved to the front
ItemIsFreshNoPop(window, link) ==
    IF link \in Range(window)
    THEN [ret |-> FALSE, window |-> window]
    ELSE [ret |-> TRUE, window |-> ListInsertFront(window, link)]

ItemIsFreshAppend(window, link) ==
    IF link \in Range(window)
    THEN [ret |-> FALSE, window |-> window]
    ELSE [ret |-> TRUE, window |-> SubSeq(window, 2, Len(window)) \o <<link>>]

ItemIsFreshFirstOnly(window, link) ==
    IF link = window[1]
    THEN [ret |-> FALSE, window |-> window]
    ELSE [ret |-> TRUE, window |-> ListPop(ListInsertFront(window, link))]

ItemIsFreshMoveToFront(window, link) ==
    IF link \in Range(window)
    THEN [ret |-> FALSE,
          window |-> <<link, IF link = window[1] THEN window[2] ELSE window[1]>>]
    ELSE [ret |-> TRUE, window |-> ListPop(ListInsertFront(window, link))]

\* lines 147-152: the value returned and the window left
item_is_fresh(window, link) ==
    IF link \in Range(window)
    THEN [ret |-> FALSE, window |-> window]
    ELSE [ret |-> TRUE, window |-> ListPop(ListInsertFront(window, link))]

----------------------------------------------------------------------------
(* The news table *)

\* list.index: the position (1-based) of name in names, 0 for ValueError
RECURSIVE ListIndexFrom(_, _, _)
ListIndexFrom(names, name, i) ==
    IF i > Len(names) THEN 0
    ELSE IF names[i] = name THEN i
    ELSE ListIndexFrom(names, name, i + 1)

ListIndex(names, name) == ListIndexFrom(names, name, 1)

Reverse(s) == [i \in 1..Len(s) |-> s[Len(s) + 1 - i]]

RECURSIVE MaxId(_)
MaxId(rows) ==
    IF rows = <<>> THEN 0
    ELSE LET m == MaxId(Tail(rows)) IN IF Head(rows)[1] > m THEN Head(rows)[1] ELSE m

\* faulty variant: ORDER BY id ASC
SelectOrderByIdAsc(rows) == rows

\* SELECT * FROM news ORDER BY id DESC: ids grow with insertion, rows are kept oldest first
SelectOrderByIdDesc(rows) == Reverse(rows)

\* cursor.fetchmany(n)
FetchMany(results, n) == SubSeq(results, 1, IF Len(results) < n THEN Len(results) ELSE n)

\* faulty variant: the two slots are assigned together or not at all
SeedSecondSlotOnly(window, column_names, results) ==
    LET column_link_index == ListIndex(column_names, "link")
    IN  IF column_link_index = 0
        THEN [window |-> window, console |-> MsgNoLinkColumn]
        ELSE IF Len(results) < 2
        THEN [window |-> window, console |-> MsgNoRows]
        ELSE [window |-> <<results[1][column_link_index], results[2][column_link_index]>>,
              console |-> ""]

\* lines 88-98: the two assignments in order, under the two try blocks
seed_window(window, column_names, results) ==
    LET column_link_index == ListIndex(column_names, "link")
    IN  IF column_link_index = 0
        THEN [window |-> window, console |-> MsgNoLinkColumn]
        ELSE IF Len(results) < 1
        THEN [window |-> window, console |-> MsgNoRows]
        ELSE LET w1 == [window EXCEPT ![1] = results[1][column_link_index]]
             IN  IF Len(results) < 2
                 THEN [window |-> w1, console |-> MsgNoRows]
                 ELSE [window |-> [w1 EXCEPT ![2] = results[2][column_link_index]],
                       console |-> ""]

\* INSERT INTO news(author, ..., title) VALUES(...): the new row, laid out by the
\* table's columns, with the next id; unchanged rows when a named column is missing
CanInsert(columns) == InsertColumns \subseteq Range(columns)

NewRow(columns, rows, values) ==
    [i \in 1..Len(columns) |->
        IF columns[i] = "id" THEN MaxId(rows) + 1 ELSE values[columns[i]]]

\* faulty variant: the row is inserted twice
InsertTwice(columns, rows, values) ==
    LET once == Append(rows, NewRow(columns, rows, values))
    IN  Append(once, NewRow(columns, once, values))

insert_news(columns, rows, values) == Append(rows, NewRow(columns, rows, values))

----------------------------------------------------------------------------
(* xmltodict.parse of the cut text, and the feed *)

ItemKeys == {"author", "category", "description", "enclosure", "pubDate", "title"}

\* the dictionary of one item: its link when it has one, the other six when it has them
ItemDict(units) ==
    LET ls == {u \in Range(units) : u \in Links}
    IN  IF ls = {} /\ Rest \in Range(units)
        THEN [author |-> "au", category |-> "ca", description |-> "de",
              enclosure |-> "img", pubDate |-> "pd", title |-> "ti"]
        ELSE IF ls = {} THEN [none |-> ""]
        ELSE IF Rest \in Range(units)
        THEN [link |-> CHOOSE l \in ls : TRUE, author |-> "au", category |-> "ca",
              description |-> "de", enclosure |-> "img", pubDate |-> "pd",
              title |-> "ti"]
        ELSE [link |-> CHOOSE l \in ls : TRUE]

\* a document parses when it is the channel with one item of plain elements
XmlParse(text) ==
    LET n == Len(text)
    IN  IF /\ n >= 4
           /\ text[1] = RssOpen
           /\ text[2] = ItemOpen
           /\ text[n - 1] = ItemEnd
           /\ text[n] = ClosingMarkup[1]
           /\ \A i \in 3..(n - 2) : text[i] \in Links \cup {Rest}
           /\ Cardinality({i \in 3..(n - 2) : text[i] \in Links}) <= 1
        THEN [kind |-> "dict", item |-> ItemDict(SubSeq(text, 3, n - 2))]
        ELSE [kind |-> "error", item |-> [none |-> ""]]

NoDict == [kind |-> "none", item |-> [none |-> ""]]

Item(units) == <<ItemOpen>> \o units \o <<ItemEnd>>

\* what the feed may answer: the two latest news (either first), an item without
\* its other elements, an item without a link, a channel without items
Responses ==
    {<<RssOpen>> \o Item(<<a, Rest>>) \o Item(<<b, Rest>>) \o ClosingMarkup :
        a \in Links, b \in Links}
    \cup {<<RssOpen>> \o Item(<<a>>) \o ClosingMarkup : a \in Links}
    \cup {<<RssOpen>> \o Item(<<Rest>>) \o ClosingMarkup,
          <<RssOpen>> \o ClosingMarkup}

----------------------------------------------------------------------------
(* History of the item_is_fresh calls *)

NoCall == [called |-> FALSE, arg |-> "", before |-> EmptyWindow, after |-> EmptyWindow,
           ret |-> FALSE]

Script(x, y, z) == <<x, y, y, x, z, x>>

FollowsScript(t) ==
    /\ Len(t) <= 6
    /\ \E x \in Links, y \in Links, z \in Links :
          /\ x # y /\ x # z /\ y # z
          /\ \A i \in 1..Len(t) : t[i].link = Script(x, y, z)[i]

FirstTwo(s) == SubSeq(s, 1, IF Len(s) < 2 THEN Len(s) ELSE 2)

\* what a call item_is_fresh(link) with outcome r leaves in the history
Record(link, r) ==
    LET t == Append(calls, [link |-> link, ret |-> r.ret, window |-> r.window])
    IN  /\ last' = [called |-> TRUE, arg |-> link, before |-> two_last_news_link,
                    after |-> r.window, ret |-> r.ret]
        /\ fresh_log' = IF r.ret THEN FirstTwo(<<link>> \o fresh_log) ELSE fresh_log
        /\ on_script' = (on_script /\ FollowsScript(t))
        /\ calls' = IF on_script /\ FollowsScript(t) THEN t ELSE <<>>

----------------------------------------------------------------------------
(* The program *)

ForeignTables ==
    {<<>>, <<<<1, "t1">>>>, <<<<1, "t1">>, <<2, "t2">>>>}

\* the process after lines 57-78: the window is ['', ''] and the table exists, either
\* just created (or kept, empty) with the program's columns or another program's
Started ==
    /\ pc = "new"
    /\ two_last_news_link = EmptyWindow
    /\ rss_text = <<>>
    /\ substr_to_find = <<>>
    /\ cut_rss_text = NoOutcome
    /\ rss_dict = NoDict
    /\ news_link = ""
    /\ fresh = FALSE
    /\ console = ""
    /\ last = NoCall
    /\ fresh_log = <<>>
    /\ calls = <<>>
    /\ on_script = FALSE
    /\ news0 = <<>>

Init ==
    /\ Started
    /\ \/ news_columns = SchemaColumns /\ news = <<>>
       \/ news_columns = ForeignColumns /\ news \in ForeignTables

\* lines 80-98
Seed ==
    /\ pc = "new"
    /\ LET results == FetchMany(SelectOrderByIdDesc(news), 2)
           r == seed_window(two_last_news_link, news_columns, results)
       IN  /\ two_last_news_link' = r.window
           /\ console' = r.console
           /\ on_script' = (r.window = EmptyWindow)
    /\ pc' = "ready"
    /\ UNCHANGED <<news_columns, news, rss_text, substr_to_find, cut_rss_text, rss_dict,
                   news_link, fresh, last, fresh_log, calls, news0>>

\* line 165
Run ==
    /\ pc = "ready"
    /\ pc' = "fetch"
    /\ UNCHANGED <<two_last_news_link, news_columns, news, rss_text, substr_to_find,
                   cut_rss_text, rss_dict, news_link, fresh, console, last, fresh_log,
                   calls, on_script, news0>>

\* line 168
Fetch ==
    /\ pc = "fetch"
    /\ Len(news) < MaxRows
    /\ rss_text' \in Responses
    /\ news0' = news
    /\ pc' = "cut"
    /\ UNCHANGED <<two_last_news_link, news_columns, news, substr_to_find, cut_rss_text,
                   rss_dict, news_link, fresh, console, last, fresh_log, calls, on_script>>

\* line 168, requests.get raising
FetchFails ==
    /\ pc = "fetch"
    /\ Len(news) < MaxRows
    /\ news0' = news
    /\ pc' = "crashed"
    /\ UNCHANGED <<two_last_news_link, news_columns, news, rss_text, substr_to_find,
                   cut_rss_text, rss_dict, news_link, fresh, console, last, fresh_log,
                   calls, on_script>>

\* line 171
Normalize ==
    /\ pc = "cut"
    /\ substr_to_find' = <<ItemEnd>>
    /\ cut_rss_text' = rss_cutter(rss_text, <<ItemEnd>>)
    /\ console' = IF StrIndex(rss_text, <<ItemEnd>>) = 0 THEN ErrHead ELSE console
    /\ pc' = "parse"
    /\ UNCHANGED <<two_last_news_link, news_columns, news, rss_text, rss_dict, news_link,
                   fresh, last, fresh_log, calls, on_script, news0>>

\* lines 174-179
Parse ==
    /\ pc = "parse"
    /\ LET d == XmlParse(cut_rss_text.value)
       IN  /\ rss_dict' = d
           /\ IF d.kind = "dict" /\ "link" \in DOMAIN d.item
              THEN news_link' = d.item.link /\ pc' = "classify"
              ELSE news_link' = news_link /\ pc' = "crashed"
    /\ UNCHANGED <<two_last_news_link, news_columns, news, rss_text, substr_to_find,
                   cut_rss_text, fresh, console, last, fresh_log, calls, on_script, news0>>

\* line 182
Classify ==
    /\ pc = "classify"
    /\ LET r == item_is_fresh(two_last_news_link, news_link)
       IN  /\ two_last_news_link' = r.window
           /\ fresh' = r.ret
           /\ pc' = IF r.ret THEN "persist" ELSE "report"
           /\ Record(news_link, r)
    /\ UNCHANGED <<news_columns, news, rss_text, substr_to_find, cut_rss_text, rss_dict,
                   news_link, console, news0>>

\* lines 185-190: the values of the row, by column
RowValues(item, link) ==
    [author |-> item.author, category |-> item.category,
     description |-> item.description, img_link |-> item.enclosure, link |-> link,
     pubDate |-> item.pubDate, title |-> item.title]

\* lines 185-201
Persist ==
    /\ pc = "persist"
    /\ IF ItemKeys \subseteq DOMAIN rss_dict.item /\ CanInsert(news_columns)
       THEN /\ news' = insert_news(news_columns, news, RowValues(rss_dict.item, news_link))
            /\ console' = MsgFresh
            /\ pc' = "sleep"
       ELSE /\ UNCHANGED <<news, console>>
            /\ pc' = "crashed"
    /\ UNCHANGED <<two_last_news_link, news_columns, rss_text, substr_to_find,
                   cut_rss_text, rss_dict, news_link, fresh, last, fresh_log, calls,
                   on_script, news0>>

\* line 204
ReportNoNews ==
    /\ pc = "report"
    /\ console' = MsgNoNews
    /\ pc' = "sleep"
    /\ UNCHANGED <<two_last_news_link, news_columns, news, rss_text, substr_to_find,
                   cut_rss_text, rss_dict, news_link, fresh, last, fresh_log, calls,
                   on_script, news0>>

\* line 206
Sleep ==
    /\ pc = "sleep"
    /\ pc' = "fetch"
    /\ UNCHANGED <<two_last_news_link, news_columns, news, rss_text, substr_to_find,
                   cut_rss_text, rss_dict, news_link, fresh, console, last, fresh_log,
                   calls, on_script, news0>>

\* the process ends (a signal, an uncaught exception) and is started again over the
\* same database: lines 57-78 of the new process
Restart ==
    /\ pc \in {"ready", "fetch", "cut", "parse", "classify", "persist", "report", "sleep",
               "crashed"}
    /\ pc' = "new"
    /\ two_last_news_link' = EmptyWindow
    /\ rss_text' = <<>>
    /\ substr_to_find' = <<>>
    /\ cut_rss_text' = NoOutcome
    /\ rss_dict' = NoDict
    /\ news_link' = ""
    /\ fresh' = FALSE
    /\ console' = ""
    /\ last' = NoCall
    /\ fresh_log' = <<>>
    /\ calls' = <<>>
    /\ on_script' = FALSE
    /\ news0' = <<>>
    /\ UNCHANGED <<news_columns, news>>

\* item_is_fresh called on the constructed object before run
DirectCall ==
    /\ pc = "ready"
    /\ \E link \in Links \cup {""} :
          LET r == item_is_fresh(two_last_news_link, link)
          IN  /\ two_last_news_link' = r.window
              /\ Record(link, r)
    /\ UNCHANGED <<pc, news_columns, news, rss_text, substr_to_find, cut_rss_text,
                   rss_dict, news_link, fresh, console, news0>>

Next ==
    \/ Seed
    \/ Run
    \/ Fetch
    \/ FetchFails
    \/ Normalize
    \/ Parse
    \/ Classify
    \/ Persist
    \/ ReportNoNews
    \/ Sleep
    \/ Restart

Spec == Init /\ [][Next]_vars

NextApi == Next \/ DirectCall

SpecApi == Init /\ [][NextApi]_vars

----------------------------------------------------------------------------
(* rss_cutter on its own *)

Texts(alphabet, n) == UNION {[1..k -> alphabet] : k \in 0..n}

InitCutter ==
    /\ pc = "cutter"
    /\ rss_text \in Texts(Chars, MaxTextLen)
    /\ substr_to_find \in Texts(Chars, MaxSubLen)
    /\ cut_rss_text = NoOutcome
    /\ two_last_news_link = EmptyWindow
    /\ news_columns = SchemaColumns
    /\ news = <<>>
    /\ rss_dict = NoDict
    /\ news_link = ""
    /\ fresh = FALSE
    /\ console = ""
    /\ last = NoCall
    /\ fresh_log = <<>>
    /\ calls = <<>>
    /\ on_script = FALSE
    /\ news0 = <<>>

CallRssCutter ==
    /\ pc = "cutter"
    /\ cut_rss_text' = rss_cutter(rss_text, substr_to_find)
    /\ console' = IF StrIndex(rss_text, substr_to_find) = 0 THEN ErrHead ELSE console
    /\ pc' = "cutter_done"
    /\ UNCHANGED <<two_last_news_link, news_columns, news, rss_text, substr_to_find,
                   rss_dict, news_link, fresh, last, fresh_log, calls, on_script, news0>>

NextCutter == CallRssCutter

SpecCutter == InitCutter /\ [][NextCutter]_vars

----------------------------------------------------------------------------
(* Properties *)

IsPrefix(s, t) == Len(s) <= Len(t) /\ SubSeq(t, 1, Len(s)) = s

HasLinkColumn == \E k \in 1..Len(news_columns) : news_columns[k] = "link"

LinkColumn == CHOOSE k \in 1..Len(news_columns) : news_columns[k] = "link"

\* the link of the i-th most recent row by descending id, the empty string when the
\* table has no such row or no link column
PersistedLink(i) ==
    LET ranked == {row \in Range(news) :
                      Cardinality({other \in Range(news) : other[1] > row[1]}) = i - 1}
    IN  IF HasLinkColumn /\ ranked # {}
        THEN (CHOOSE row \in ranked : TRUE)[LinkColumn]
        ELSE ""

\* C1: a call item_is_fresh(p) with p equal to one of the two links of the window
\* returns False and leaves the window as it was, same values in the same order.
C1_DuplicateLeavesWindow ==
    (last.called /\ last.arg \in {last.before[1], last.before[2]})
        => (last.ret = FALSE /\ last.after = last.before)

C1_Witness ==
    /\ last.called
    /\ last.arg = last.before[2]
    /\ last.arg # last.before[1]
    /\ last.before[1] # ""
    /\ two_last_news_link = last.before

\* C2: a call item_is_fresh(p) on the window [a, b] with p different from a and b
\* returns True and leaves the window [p, a].
C2_FreshShiftsWindow ==
    (last.called /\ last.arg # last.before[1] /\ last.arg # last.before[2])
        => (last.ret = TRUE /\ last.after = <<last.arg, last.before[1]>>)

C2_Witness ==
    /\ last.called
    /\ last.ret
    /\ last.before[1] # ""
    /\ last.before[2] # ""
    /\ last.before[1] # last.before[2]
    /\ two_last_news_link = <<last.arg, last.before[1]>>

\* C3: in every state, whatever the table held at startup and whatever calls and poll
\* cycles were made, two_last_news_link has exactly 2 elements.
C3_WindowHasTwoSlots == Len(two_last_news_link) = 2

C3_Witness ==
    /\ pc = "sleep"
    /\ fresh
    /\ Len(news) >= 2
    /\ Len(fresh_log) = 2
    /\ Len(two_last_news_link) = 2

\* C4: the window starts with the links classified fresh so far, newest first, and is
\* exactly the two most recent once there are two; and from the window ["", ""] the
\* calls A, B, B, A, C, A (A, B, C distinct and non-empty) return fresh, fresh,
\* duplicate, duplicate, fresh, fresh, leaving [A, ""] after the first, [B, A] after
\* the second and [C, B] after the fifth.
C4_WindowTracksLastTwoFresh ==
    /\ \A i \in 1..Len(fresh_log) : two_last_news_link[i] = fresh_log[i]
    /\ on_script =>
          /\ \A i \in 1..Len(calls) :
                calls[i].ret = <<TRUE, TRUE, FALSE, FALSE, TRUE, TRUE>>[i]
          /\ Len(calls) >= 1 => calls[1].window = <<calls[1].link, "">>
          /\ Len(calls) >= 2 => calls[2].window = <<calls[2].link, calls[1].link>>
          /\ Len(calls) >= 5 => calls[5].window = <<calls[5].link, calls[2].link>>

C4_Witness ==
    /\ on_script
    /\ Len(calls) = 6
    /\ calls[6].ret
    /\ two_last_news_link = <<calls[1].link, calls[5].link>>

\* C5: when the text contains the substring, rss_cutter returns the text up to and
\* including its first occurrence, followed by '</channel></rss>' and nothing else.
C5_CutAtFirstOccurrence ==
    (pc = "cutter_done" /\ Contains(rss_text, substr_to_find))
        => LET p == CHOOSE i \in 1..(Len(rss_text) + 1) :
                       /\ OccursAt(rss_text, substr_to_find, i)
                       /\ \A j \in 1..(i - 1) : ~OccursAt(rss_text, substr_to_find, j)
           IN  /\ cut_rss_text.kind = "return"
               /\ cut_rss_text.value =
                      SubSeq(rss_text, 1, p + Len(substr_to_find) - 1) \o ClosingMarkup

C5_Witness ==
    /\ pc = "cutter_done"
    /\ Len(substr_to_find) = 2
    /\ ~OccursAt(rss_text, substr_to_find, 1)
    /\ OccursAt(rss_text, substr_to_find, 2)
    /\ OccursAt(rss_text, substr_to_find, 3)
    /\ Len(cut_rss_text.value) = 4

\* C6: when the text does not contain the substring, rss_cutter does not return an
\* ordinary string: its caller gets an error it can tell from a cut text.
C6_MissingDelimiterSignalsError ==
    (pc = "cutter_done" /\ ~Contains(rss_text, substr_to_find))
        => ~(cut_rss_text.kind = "return" /\ cut_rss_text.type = "str")

\* C7: after construction, slot i of the window is the link of the (i+1)-th most recent
\* row by descending id when there is one and the empty string otherwise: [Y, X] over
\* two or more rows, [Y, ""] over one, ["", ""] over none.
C7_WindowSeededFromStore ==
    pc = "ready" => two_last_news_link = <<PersistedLink(1), PersistedLink(2)>>

C7_Witness ==
    /\ pc = "ready"
    /\ Len(news) >= 3
    /\ two_last_news_link = <<news[Len(news)][6], news[Len(news) - 1][6]>>
    /\ two_last_news_link[1] # two_last_news_link[2]

\* C8: no step changes or removes a row, and a poll cycle that completes has appended
\* exactly one row, with the polled link, and printed the confirmation when
\* item_is_fresh returned True, and has appended nothing and printed the notice of no
\* news when it returned False.
C8_CycleAppendsOnlyWhenFresh ==
    [][/\ IsPrefix(news, news')
       /\ pc' = "sleep" =>
             IF fresh'
             THEN /\ Len(news') = Len(news0') + 1
                  /\ IsPrefix(news0', news')
                  /\ news'[Len(news')][LinkColumn] = news_link'
                  /\ console' = MsgFresh
             ELSE /\ news' = news0'
                  /\ console' = MsgNoNews]_vars

\* two polls of the same link from the empty window: one row, then the notice
C8_Witness ==
    /\ pc = "sleep"
    /\ ~fresh
    /\ Len(news) = 1
    /\ news[1][6] = news_link
    /\ fresh_log = <<news_link>>
    /\ console = MsgNoNews

\* C9: starting from an empty table, no two rows have the same link.
C9_NoTwoRowsShareLink ==
    HasLinkColumn =>
        \A i \in 1..Len(news), j \in 1..Len(news) :
            i # j => news[i][LinkColumn] # news[j][LinkColumn]

\* C10: at the start of every poll cycle, and at every point of a running process but
\* between the window update of item_is_fresh and the commit of the row, the window is
\* the links of the two most recent rows, newest first, the empty string standing in
\* for a missing row.
C10_WindowMatchesStore ==
    pc \in {"ready", "fetch", "cut", "parse", "classify", "report", "sleep"}
        => two_last_news_link = <<PersistedLink(1), PersistedLink(2)>>

C10_Witness ==
    /\ pc = "fetch"
    /\ last.called
    /\ last.ret
    /\ Len(news) >= 3
    /\ two_last_news_link = <<news[Len(news)][6], news[Len(news) - 1][6]>>

====
